---- MODULE Spec2Model ----
(***************************************************************************)
(* Model of the 2048 board engine (lib-2048) and of the stateless message  *)
(* codec of the chat-bot front end (discord-2048).                         *)
(*                                                                         *)
(* A grid is a function  cells[y][x]  with y the row and x the column,     *)
(* both in 0..GAME_BOARD_SIZE-1, as the Rust array  [[BoardSpace; 4]; 4].  *)
(* A BoardSpace is encoded as an integer: Vacant is -1 and Tile(n) is n.   *)
(***************************************************************************)
EXTENDS Integers, Sequences, FiniteSets, TLC

VARIABLES
    cells,   \* GameBoard: the grid of the in-memory board
    score,   \* GameBoard: the score of the in-memory board
    op,      \* name of the last operation that ran
    arg,     \* the input of the last operation
    ret,     \* the value returned by the last operation
    old,     \* the board (cells, score) before the last operation
    steps,   \* number of mutating calls made so far (bounded by MaxSteps)
    msg      \* bot: the message last rendered (in flight to the next request)

vars == <<cells, score, op, arg, ret, old, steps, msg>>

----------------------------------------------------------------------------
(* Program constants and the BoardSpace type                                *)

GAME_BOARD_SIZE == 4

Vacant == -1

Tile(n) == n

IsTile(c) == c >= 0

Idx == 0 .. (GAME_BOARD_SIZE - 1)

\* MoveDirection
Directions == {"Up", "Down", "Left", "Right"}

\* A row literal, as written in the Rust sources: [a, b, c, d]
Row(a, b, c, d) == [x \in Idx |-> <<a, b, c, d>>[x + 1]]

\* A grid literal: [[..], [..], [..], [..]], first row on top
Grid(r0, r1, r2, r3) == [y \in Idx |-> <<r0, r1, r2, r3>>[y + 1]]

\* GameBoard::empty
empty == [y \in Idx |-> [x \in Idx |-> Vacant]]

\* GameBoard::new: the body is the same array literal as empty's
\* (the prefill with two tiles is a TODO in the source)
new == [y \in Idx |-> [x \in Idx |-> Vacant]]

\* GameBoard::get
get(g, pos) == g[pos[2]][pos[1]]

\* set with the two indices exchanged (writes row x, column y)
setRowColumn(g, pos, val) == [g EXCEPT ![pos[1]][pos[2]] = val]

\* GameBoard::set
set(g, pos, val) == [g EXCEPT ![pos[2]][pos[1]] = val]

----------------------------------------------------------------------------
(* GameBoard::move, one group of operators per match arm.  Each operator    *)
(* is one loop of the source; the grid g is threaded through the loops as   *)
(* the in-place array is.                                                   *)

\* the Up merge scan without the arm  BoardSpace::Tile(_) => break :
\* it looks past a tile of another value
RECURSIVE UpMergeScanThrough(_, _, _, _)
UpMergeScanThrough(g, x, y, y2) ==
    IF y2 > GAME_BOARD_SIZE - 1 THEN g
    ELSE IF IsTile(g[y2][x]) /\ g[y2][x] = g[y][x]
         THEN [g EXCEPT ![y][x] = Tile(g[y][x] * 2), ![y2][x] = Vacant]
    ELSE UpMergeScanThrough(g, x, y, y2 + 1)

\* ---- MoveDirection::Up ----
RECURSIVE UpMergeScan(_, _, _, _)
UpMergeScan(g, x, y, y2) ==
    IF y2 > GAME_BOARD_SIZE - 1 THEN g
    ELSE IF IsTile(g[y2][x]) /\ g[y2][x] = g[y][x]
         THEN [g EXCEPT ![y][x] = Tile(g[y][x] * 2), ![y2][x] = Vacant]
    ELSE IF IsTile(g[y2][x]) THEN g
    ELSE UpMergeScan(g, x, y, y2 + 1)

RECURSIVE UpMerge(_, _, _)
UpMerge(g, x, y) ==
    IF y > GAME_BOARD_SIZE - 1 THEN g
    ELSE UpMerge(IF IsTile(g[y][x]) THEN UpMergeScan(g, x, y, y + 1) ELSE g,
                 x, y + 1)

\* the Up compaction copying the tile down without clearing where it came from
RECURSIVE UpFillCopy(_, _, _, _)
UpFillCopy(g, x, y, y2) ==
    IF y2 > GAME_BOARD_SIZE - 1 THEN g
    ELSE IF IsTile(g[y2][x])
         THEN [g EXCEPT ![y][x] = g[y2][x]]
    ELSE UpFillCopy(g, x, y, y2 + 1)

RECURSIVE UpFill(_, _, _, _)
UpFill(g, x, y, y2) ==
    IF y2 > GAME_BOARD_SIZE - 1 THEN g
    ELSE IF IsTile(g[y2][x])
         THEN [g EXCEPT ![y][x] = g[y2][x], ![y2][x] = Vacant]
    ELSE UpFill(g, x, y, y2 + 1)

RECURSIVE UpCompact(_, _, _)
UpCompact(g, x, y) ==
    IF y > GAME_BOARD_SIZE - 1 THEN g
    ELSE UpCompact(IF g[y][x] = Vacant THEN UpFill(g, x, y, y + 1) ELSE g,
                   x, y + 1)

RECURSIVE MoveUp(_, _)
MoveUp(g, x) ==
    IF x > GAME_BOARD_SIZE - 1 THEN g
    ELSE MoveUp(UpCompact(UpMerge(g, x, 0), x, 0), x + 1)

\* the Down merge scan without the guard  if t == t2 : the nearest tile is
\* added to the scanning one whatever its value
RECURSIVE DownMergeScanAnyPair(_, _, _, _)
DownMergeScanAnyPair(g, x, y, y2) ==
    IF y2 < 0 THEN g
    ELSE IF IsTile(g[y2][x])
         THEN [g EXCEPT ![y][x] = Tile(g[y][x] + g[y2][x]), ![y2][x] = Vacant]
    ELSE DownMergeScanAnyPair(g, x, y, y2 - 1)

\* ---- MoveDirection::Down ----
RECURSIVE DownMergeScan(_, _, _, _)
DownMergeScan(g, x, y, y2) ==
    IF y2 < 0 THEN g
    ELSE IF IsTile(g[y2][x]) /\ g[y2][x] = g[y][x]
         THEN [g EXCEPT ![y][x] = Tile(g[y][x] * 2), ![y2][x] = Vacant]
    ELSE IF IsTile(g[y2][x]) THEN g
    ELSE DownMergeScan(g, x, y, y2 - 1)

RECURSIVE DownMerge(_, _, _)
DownMerge(g, x, y) ==
    IF y < 0 THEN g
    ELSE DownMerge(IF IsTile(g[y][x]) THEN DownMergeScan(g, x, y, y - 1) ELSE g,
                   x, y - 1)

RECURSIVE DownFill(_, _, _, _)
DownFill(g, x, y, y2) ==
    IF y2 < 0 THEN g
    ELSE IF IsTile(g[y2][x])
         THEN [g EXCEPT ![y][x] = g[y2][x], ![y2][x] = Vacant]
    ELSE DownFill(g, x, y, y2 - 1)

RECURSIVE DownCompact(_, _, _)
DownCompact(g, x, y) ==
    IF y < 0 THEN g
    ELSE DownCompact(IF g[y][x] = Vacant THEN DownFill(g, x, y, y - 1) ELSE g,
                     x, y - 1)

RECURSIVE MoveDown(_, _)
MoveDown(g, x) ==
    IF x > GAME_BOARD_SIZE - 1 THEN g
    ELSE MoveDown(DownCompact(DownMerge(g, x, GAME_BOARD_SIZE - 1),
                              x, GAME_BOARD_SIZE - 1),
                  x + 1)

\* the Left merge scan without the break after a merge: the doubled tile
\* goes on scanning and may merge again
RECURSIVE LeftMergeScanCascade(_, _, _, _)
LeftMergeScanCascade(g, y, x, x2) ==
    IF x2 > GAME_BOARD_SIZE - 1 THEN g
    ELSE IF IsTile(g[y][x2]) /\ g[y][x2] = g[y][x]
         THEN LeftMergeScanCascade(
                  [g EXCEPT ![y][x] = Tile(g[y][x] * 2), ![y][x2] = Vacant],
                  y, x, x2 + 1)
    ELSE IF IsTile(g[y][x2]) THEN g
    ELSE LeftMergeScanCascade(g, y, x, x2 + 1)

\* the Left merge scan that doubles the tile and leaves its partner in place
RECURSIVE LeftMergeScanKeepsPartner(_, _, _, _)
LeftMergeScanKeepsPartner(g, y, x, x2) ==
    IF x2 > GAME_BOARD_SIZE - 1 THEN g
    ELSE IF IsTile(g[y][x2]) /\ g[y][x2] = g[y][x]
         THEN [g EXCEPT ![y][x] = Tile(g[y][x] * 2)]
    ELSE IF IsTile(g[y][x2]) THEN g
    ELSE LeftMergeScanKeepsPartner(g, y, x, x2 + 1)

\* ---- MoveDirection::Left ----
RECURSIVE LeftMergeScan(_, _, _, _)
LeftMergeScan(g, y, x, x2) ==
    IF x2 > GAME_BOARD_SIZE - 1 THEN g
    ELSE IF IsTile(g[y][x2]) /\ g[y][x2] = g[y][x]
         THEN [g EXCEPT ![y][x] = Tile(g[y][x] * 2), ![y][x2] = Vacant]
    ELSE IF IsTile(g[y][x2]) THEN g
    ELSE LeftMergeScan(g, y, x, x2 + 1)

RECURSIVE LeftMerge(_, _, _)
LeftMerge(g, y, x) ==
    IF x > GAME_BOARD_SIZE - 1 THEN g
    ELSE LeftMerge(IF IsTile(g[y][x]) THEN LeftMergeScan(g, y, x, x + 1) ELSE g,
                   y, x + 1)

\* the Left compaction scanning from the far end of the row: it fetches the
\* farthest tile, not the nearest
LeftFillFarthest(g, y, x, x2) ==
    LET src == {j \in x .. (GAME_BOARD_SIZE - 1) : IsTile(g[y][j])}
    IN  IF src = {} THEN g
        ELSE LET j == CHOOSE m \in src : \A k \in src : m >= k
             IN  [g EXCEPT ![y][x] = g[y][j], ![y][j] = g[y][x]]

\* self.0[y].swap(x, x2); the scan starts at x2 = x
RECURSIVE LeftFill(_, _, _, _)
LeftFill(g, y, x, x2) ==
    IF x2 > GAME_BOARD_SIZE - 1 THEN g
    ELSE IF IsTile(g[y][x2])
         THEN [g EXCEPT ![y][x] = g[y][x2], ![y][x2] = g[y][x]]
    ELSE LeftFill(g, y, x, x2 + 1)

RECURSIVE LeftCompact(_, _, _)
LeftCompact(g, y, x) ==
    IF x > GAME_BOARD_SIZE - 1 THEN g
    ELSE LeftCompact(IF g[y][x] = Vacant THEN LeftFill(g, y, x, x) ELSE g,
                     y, x + 1)

RECURSIVE MoveLeft(_, _)
MoveLeft(g, y) ==
    IF y > GAME_BOARD_SIZE - 1 THEN g
    ELSE MoveLeft(LeftCompact(LeftMerge(g, y, 0), y, 0), y + 1)

\* the Right compaction scanning  0..x  upward instead of  (0..x).rev() :
\* it fetches the farthest tile, not the nearest
RightFillFarthest(g, y, x, x2) ==
    LET src == {j \in 0 .. (x - 1) : IsTile(g[y][j])}
    IN  IF src = {} THEN g
        ELSE LET j == CHOOSE m \in src : \A k \in src : m <= k
             IN  [g EXCEPT ![y][x] = g[y][j], ![y][j] = g[y][x]]

\* the Right merge scan without the arm  BoardSpace::Tile(_) => break :
\* it looks past a tile of another value
RECURSIVE RightMergeScanThrough(_, _, _, _)
RightMergeScanThrough(g, y, x, x2) ==
    IF x2 < 0 THEN g
    ELSE IF IsTile(g[y][x2]) /\ g[y][x2] = g[y][x]
         THEN [g EXCEPT ![y][x] = Tile(g[y][x] * 2), ![y][x2] = Vacant]
    ELSE RightMergeScanThrough(g, y, x, x2 - 1)

\* ---- MoveDirection::Right ----
RECURSIVE RightMergeScan(_, _, _, _)
RightMergeScan(g, y, x, x2) ==
    IF x2 < 0 THEN g
    ELSE IF IsTile(g[y][x2]) /\ g[y][x2] = g[y][x]
         THEN [g EXCEPT ![y][x] = Tile(g[y][x] * 2), ![y][x2] = Vacant]
    ELSE IF IsTile(g[y][x2]) THEN g
    ELSE RightMergeScan(g, y, x, x2 - 1)

RECURSIVE RightMerge(_, _, _)
RightMerge(g, y, x) ==
    IF x < 0 THEN g
    ELSE RightMerge(IF IsTile(g[y][x]) THEN RightMergeScan(g, y, x, x - 1) ELSE g,
                    y, x - 1)

RECURSIVE RightFill(_, _, _, _)
RightFill(g, y, x, x2) ==
    IF x2 < 0 THEN g
    ELSE IF IsTile(g[y][x2])
         THEN [g EXCEPT ![y][x] = g[y][x2], ![y][x2] = g[y][x]]
    ELSE RightFill(g, y, x, x2 - 1)

RECURSIVE RightCompact(_, _, _)
RightCompact(g, y, x) ==
    IF x < 0 THEN g
    ELSE RightCompact(IF g[y][x] = Vacant THEN RightFill(g, y, x, x - 1) ELSE g,
                      y, x - 1)

RECURSIVE MoveRight(_, _)
MoveRight(g, y) ==
    IF y > GAME_BOARD_SIZE - 1 THEN g
    ELSE MoveRight(RightCompact(RightMerge(g, y, GAME_BOARD_SIZE - 1),
                                y, GAME_BOARD_SIZE - 1),
                   y + 1)

\* move with the Up arm running the Down loops
moveUpAsDown(g, dir) ==
    CASE dir = "Up"    -> MoveDown(g, 0)
      [] dir = "Down"  -> MoveDown(g, 0)
      [] dir = "Left"  -> MoveLeft(g, 0)
      [] dir = "Right" -> MoveRight(g, 0)

\* GameBoard::move: the match over the direction
move(g, dir) ==
    CASE dir = "Up"    -> MoveUp(g, 0)
      [] dir = "Down"  -> MoveDown(g, 0)
      [] dir = "Left"  -> MoveLeft(g, 0)
      [] dir = "Right" -> MoveRight(g, 0)

----------------------------------------------------------------------------
(* The rotation primitive and the loss check.  lib.rs defines neither (the  *)
(* bot calls game.has_lost()); both follow the design document.             *)

\* a quarter-turn done in place without the temporary: of the four cells of
\* each cycle the last is filled from a cell already overwritten
rotate_without_temp(g) ==
    [y \in Idx |-> [x \in Idx |->
        IF x > y /\ x + y >= GAME_BOARD_SIZE - 1
        THEN g[GAME_BOARD_SIZE - 1 - y][GAME_BOARD_SIZE - 1 - x]
        ELSE g[x][GAME_BOARD_SIZE - 1 - y]]]

\* one quarter-turn, the way that makes one turn bring Up to Left: the top
\* row, read right to left, becomes the left column
rotate(g) == [y \in Idx |-> [x \in Idx |-> g[x][GAME_BOARD_SIZE - 1 - y]]]

RECURSIVE rotate_times(_, _)
rotate_times(g, times) ==
    IF times = 0 THEN g ELSE rotate_times(rotate(g), times - 1)

\* stuck iff every row of every rotation has no Vacant cell and no two
\* horizontally adjacent equal tiles
has_lost(g) ==
    \A k \in 0 .. 3 :
        LET r == rotate_times(g, k) IN
        \A y \in Idx : \A x \in 0 .. (GAME_BOARD_SIZE - 2) :
            /\ r[y][x] # Vacant
            /\ r[y][x + 1] # Vacant
            /\ r[y][x] # r[y][x + 1]

\* the values a spawned tile may take
SPAWN_VALUES == {Tile(2), Tile(4)}

\* the Vacant coordinates (x, y) of a grid
vacant_coordinates(g) == {pos \in Idx \X Idx : g[pos[2]][pos[1]] = Vacant}

\* the random tile spawn, pick and val being what the random source draws:
\* a no-op without a Vacant cell, else the picked Vacant cell is set to val
spawn(g, pick, val) ==
    IF vacant_coordinates(g) = {} THEN g ELSE set(g, pick, val)

\* quarter-turns that bring a direction to Left
turns(dir) ==
    CASE dir = "Left"  -> 0
      [] dir = "Up"    -> 1
      [] dir = "Right" -> 2
      [] dir = "Down"  -> 3

----------------------------------------------------------------------------
(* Bounds of the model and the boards a session starts from                 *)

\* how many mutating calls (new, empty, set, move) one behaviour makes
MaxSteps == 2

\* SAMPLE_GAME_BOARD of the unit tests
SAMPLE_GAME_BOARD ==
    Grid(Row(Tile(2), Tile(2), Tile(2), Tile(2)),
         Row(Tile(2), Tile(8), Tile(1), Vacant),
         Row(Vacant, Vacant, Vacant, Vacant),
         Row(Tile(2), Tile(4), Tile(1), Tile(2)))

RowKinds ==
    << Row(Vacant, Vacant, Vacant, Vacant),
       Row(Tile(2), Tile(2), Tile(2), Tile(2)),
       Row(Tile(2), Tile(4), Tile(2), Tile(4)),
       Row(Tile(4), Tile(2), Tile(4), Tile(2)),
       Row(Tile(2), Tile(2), Tile(4), Vacant) >>

RowSet == {RowKinds[i] : i \in DOMAIN RowKinds}

\* a board with gaps inside its rows: equal tiles with only Vacant cells
\* between them, and equal tiles with another tile between them
GAP_GRID ==
    Grid(Row(Tile(2), Vacant, Vacant, Tile(2)),
         Row(Tile(2), Vacant, Tile(4), Tile(2)),
         Row(Vacant, Tile(2), Vacant, Tile(2)),
         Row(Tile(2), Tile(4), Vacant, Tile(2)))

\* boards built directly from an array, as the tests and the CLI driver do
InitGrids ==
    {SAMPLE_GAME_BOARD, GAP_GRID} \cup [Idx -> RowSet]

InitScores == {12}

\* inputs of set: positions with x # y among them, and three cell values
SetPositions == {<<0, 0>>, <<3, 1>>}

GetPositions == {<<0, 0>>, <<3, 1>>, <<1, 2>>}

SetValues == {Vacant, Tile(2048)}

NoArg ==
    [dir |-> "-", pos |-> <<0, 0>>, val |-> Vacant, token |-> <<>>, own |-> TRUE,
     content |-> <<>>, times |-> 0]

NoRet ==
    [cell |-> Vacant, lost |-> FALSE, kind |-> "-", cells |-> empty, score |-> 0,
     flags |-> "-", content |-> <<>>]

NoMsg == [content |-> <<>>, components |-> <<>>]

Board == [cells |-> cells, score |-> score]

----------------------------------------------------------------------------
(* The engine: one action per operation of the GameBoard API               *)

Init ==
    /\ cells \in InitGrids
    /\ score \in InitScores
    /\ op = "init"
    /\ arg = NoArg
    /\ ret = NoRet
    /\ old = [cells |-> cells, score |-> score]
    /\ steps = 0
    /\ msg = NoMsg

\* GameBoard::new(); the score of a fresh board, which handle_command renders
\* right after new(), is 0
New ==
    /\ steps < MaxSteps
    /\ steps' = steps + 1
    /\ cells' = new
    /\ score' = 0
    /\ op' = "new"
    /\ arg' = NoArg
    /\ ret' = NoRet
    /\ old' = Board
    /\ UNCHANGED msg

\* GameBoard::empty()
Empty ==
    /\ steps < MaxSteps
    /\ steps' = steps + 1
    /\ cells' = empty
    /\ score' = 0
    /\ op' = "empty"
    /\ arg' = NoArg
    /\ ret' = NoRet
    /\ old' = Board
    /\ UNCHANGED msg

\* board.get((x, y))
Get ==
    \E x \in Idx, y \in Idx :
        /\ <<x, y>> \in GetPositions
        /\ op' = "get"
        /\ arg' = [NoArg EXCEPT !.pos = <<x, y>>]
        /\ ret' = [NoRet EXCEPT !.cell = get(cells, <<x, y>>)]
        /\ old' = Board
        /\ UNCHANGED <<cells, score, steps, msg>>

\* board.set((x, y), val)
Set ==
    \E pos \in SetPositions, val \in SetValues :
        /\ steps < MaxSteps
        /\ cells' = set(cells, pos, val)
        /\ steps' = steps + 1
        /\ op' = "set"
        /\ arg' = [NoArg EXCEPT !.pos = pos, !.val = val]
        /\ ret' = NoRet
        /\ old' = Board
        /\ UNCHANGED <<score, msg>>

\* board.move(dir)
Move ==
    \E dir \in Directions :
        /\ steps < MaxSteps
        /\ steps' = steps + 1
        /\ cells' = move(cells, dir)
        /\ op' = "move"
        /\ arg' = [NoArg EXCEPT !.dir = dir]
        /\ ret' = NoRet
        /\ old' = Board
        /\ UNCHANGED <<score, msg>>

\* board.has_lost()
HasLost ==
    /\ op' = "has_lost"
    /\ arg' = NoArg
    /\ ret' = [NoRet EXCEPT !.lost = has_lost(cells)]
    /\ old' = Board
    /\ UNCHANGED <<cells, score, steps, msg>>

Next == New \/ Empty \/ Get \/ Set \/ Move \/ HasLost

Spec == Init /\ [][Next]_vars

----------------------------------------------------------------------------
(* The engine with the operations of the design document that lib.rs does   *)
(* not define: the random tile spawn and the rotation primitive             *)

\* a full grid without equal neighbours, a full grid of equal tiles, and a
\* grid with one Vacant cell
STUCK_GRID ==
    Grid(Row(Tile(2), Tile(4), Tile(2), Tile(4)),
         Row(Tile(4), Tile(2), Tile(4), Tile(2)),
         Row(Tile(2), Tile(4), Tile(2), Tile(4)),
         Row(Tile(4), Tile(2), Tile(4), Tile(2)))

DesignGrids ==
    { empty, SAMPLE_GAME_BOARD, STUCK_GRID,
      [y \in Idx |-> RowKinds[2]],
      set(STUCK_GRID, <<3, 1>>, Vacant) }

InitDesign ==
    /\ cells \in DesignGrids
    /\ score \in InitScores
    /\ op = "init"
    /\ arg = NoArg
    /\ ret = NoRet
    /\ old = [cells |-> cells, score |-> score]
    /\ steps = 0
    /\ msg = NoMsg

\* the random tile spawn; the draw is any Vacant coordinate and either value
Spawn ==
    /\ steps < MaxSteps
    /\ steps' = steps + 1
    /\ \E val \in SPAWN_VALUES :
       \E pick \in IF vacant_coordinates(cells) = {} THEN {<<0, 0>>}
                    ELSE vacant_coordinates(cells) :
           /\ cells' = spawn(cells, pick, val)
           /\ arg' = [NoArg EXCEPT !.pos = pick, !.val = val]
    /\ op' = "spawn"
    /\ ret' = NoRet
    /\ old' = Board
    /\ UNCHANGED <<score, msg>>

\* the rotation primitive applied times quarter-turns
Rotate ==
    \E times \in 0 .. 3 :
        /\ steps < MaxSteps
        /\ steps' = steps + 1
        /\ cells' = rotate_times(cells, times)
        /\ op' = "rotate"
        /\ arg' = [NoArg EXCEPT !.times = times]
        /\ ret' = NoRet
        /\ old' = Board
        /\ UNCHANGED <<score, msg>>

NextDesign == Spawn \/ Rotate \/ Move

SpecDesign == InitDesign /\ [][NextDesign]_vars

----------------------------------------------------------------------------
(* The bot front end: strings are sequences of one-character strings        *)

\* const ZWS: the zero-width space, a single character
ZWS == <<"ZWS">>

\* const SCORE_PREFIX
SCORE_PREFIX == <<"*", "*", "S", "c", "o", "r", "e", ":", "*", "*", " ">>

\* the literal in front of the score in the game-over text
GAME_OVER_PREFIX ==
    <<"*", "*", "G", "a", "m", "e", " ", "O", "v", "e", "r", "!", "*", "*", "\n", ">", " ">>

\* label: None of the control buttons
None == <<"None">>

DigitChars == <<"0", "1", "2", "3", "4", "5", "6", "7", "8", "9">>

Whitespace == {" ", "\n", "\t"}

\* the digits written least significant first
RECURSIVE to_string_reversed(_)
to_string_reversed(n) ==
    IF n < 10 THEN <<DigitChars[n + 1]>>
    ELSE <<DigitChars[(n % 10) + 1]>> \o to_string_reversed(n \div 10)

\* usize::to_string, format!("{}", n)
RECURSIVE to_string(_)
to_string(n) ==
    IF n < 10 THEN <<DigitChars[n + 1]>>
    ELSE to_string(n \div 10) \o <<DigitChars[(n % 10) + 1]>>

DigitValue(c) == CHOOSE d \in 0 .. 9 : DigitChars[d + 1] = c

RECURSIVE parse_digits(_, _)
parse_digits(s, acc) ==
    IF s = <<>> THEN acc
    ELSE parse_digits(Tail(s), acc * 10 + DigitValue(s[1]))

\* the Err of str::parse::<usize>
ParseErr == -2

\* usize::MAX of a 64-bit target, as its decimal digits
USIZE_MAX ==
    <<"1", "8", "4", "4", "6", "7", "4", "4", "0", "7",
      "3", "7", "0", "9", "5", "5", "1", "6", "1", "5">>

RECURSIVE strip_zeros(_)
strip_zeros(s) ==
    IF s # <<>> /\ s[1] = "0" THEN strip_zeros(Tail(s)) ELSE s

\* a <= b for two digit strings of the same length
RECURSIVE digits_le(_, _)
digits_le(a, b) ==
    IF a = <<>> THEN TRUE
    ELSE IF DigitValue(a[1]) < DigitValue(b[1]) THEN TRUE
    ELSE IF DigitValue(a[1]) > DigitValue(b[1]) THEN FALSE
    ELSE digits_le(Tail(a), Tail(b))

\* the number a digit string writes is at most usize::MAX
fits_usize(body) ==
    LET d == strip_zeros(body)
    IN  \/ Len(d) < Len(USIZE_MAX)
        \/ Len(d) = Len(USIZE_MAX) /\ digits_le(d, USIZE_MAX)

\* str::parse::<usize>: an optional "+", then one or more decimal digits
\* that write a number up to usize::MAX; anything else is an Err
parse_usize(s) ==
    LET body == IF s # <<>> /\ s[1] = "+" THEN Tail(s) ELSE s
    IN  IF body = <<>> \/ \E i \in 1 .. Len(body) :
                              \A d \in 1 .. 10 : DigitChars[d] # body[i]
        THEN ParseErr
        ELSE IF ~fits_usize(body) THEN ParseErr
        ELSE parse_digits(body, 0)

\* str::trim
RECURSIVE trim(_)
trim(s) ==
    IF s = <<>> THEN s
    ELSE IF s[1] \in Whitespace THEN trim(Tail(s))
    ELSE IF s[Len(s)] \in Whitespace THEN trim(SubSeq(s, 1, Len(s) - 1))
    ELSE s

\* str::find: the byte offset of the first match, -1 for None
find(hay, needle) ==
    LET starts == {i \in 0 .. (Len(hay) - Len(needle)) :
                       SubSeq(hay, i + 1, i + Len(needle)) = needle}
    IN  IF starts = {} THEN -1
        ELSE CHOOSE i \in starts : \A k \in starts : i <= k

\* one button of the grid rows
cell_button(x, y, cell) ==
    [ disabled  |-> cell = Vacant,
      custom_id |-> to_string(x) \o <<"-">> \o to_string(y),
      style     |-> IF IsTile(cell) /\ cell >= 2048 THEN "Success"
                    ELSE IF IsTile(cell) THEN "Primary"
                    ELSE "Secondary",
      label     |-> IF IsTile(cell) THEN to_string(cell) ELSE ZWS ]

LEFT == <<"l", "e", "f", "t">>

UP == <<"u", "p">>

DOWN == <<"d", "o", "w", "n">>

RIGHT == <<"r", "i", "g", "h", "t">>

\* one button of the control row
control_button(id, g) ==
    [ disabled |-> has_lost(g), custom_id |-> id, style |-> "Success", label |-> None ]

\* game_board_to_msg_components: four rows of four buttons, then the controls
game_board_to_msg_components(g) ==
    [r \in 1 .. (GAME_BOARD_SIZE + 1) |->
        IF r <= GAME_BOARD_SIZE
        THEN [c \in 1 .. GAME_BOARD_SIZE |-> cell_button(c - 1, r - 1, g[r - 1][c - 1])]
        ELSE <<control_button(LEFT, g), control_button(UP, g),
               control_button(DOWN, g), control_button(RIGHT, g)>>]

\* the text of handle_command's response
command_content(sc) == SCORE_PREFIX \o to_string(sc)

\* handle_button's text without the has_lost branch, as handle_command's
button_content_plain(g, sc) == SCORE_PREFIX \o to_string(sc)

\* the text of handle_button's response
button_content(g, sc) ==
    IF has_lost(g) THEN GAME_OVER_PREFIX \o SCORE_PREFIX \o to_string(sc)
    ELSE SCORE_PREFIX \o to_string(sc)

\* component_labels indexed [x][y]: the grid is read back transposed
component_label_transposed(m, y, x) ==
    LET l == m.components[x + 1][y + 1].label
    IN  IF l = ZWS THEN Vacant ELSE Tile(parse_usize(l))

\* handle_button: component_labels, the cell a grid button's label stands for
component_label(m, y, x) ==
    LET l == m.components[y + 1][x + 1].label
    IN  IF l = ZWS THEN Vacant ELSE Tile(parse_usize(l))

\* handle_button: the loops  a.cells[y][x] = component_labels[y][x]
RECURSIVE decode_fill(_, _, _, _)
decode_fill(a, m, y, x) ==
    IF y > GAME_BOARD_SIZE - 1 THEN a
    ELSE IF x > GAME_BOARD_SIZE - 1 THEN decode_fill(a, m, y + 1, 0)
    ELSE decode_fill([a EXCEPT ![y][x] = component_label(m, y, x)], m, y, x + 1)

\* handle_button: the grid read back from the labels of components[0..4]
decode_cells(m) == decode_fill(empty, m, 0, 0)

\* the score decode that, finding no prefix, parses the whole text
decode_score_whole_text(content) ==
    LET start == find(content, SCORE_PREFIX)
        from  == IF start # -1 THEN start + Len(SCORE_PREFIX) + 1 ELSE 1
        after == parse_usize(trim(SubSeq(content, from, Len(content))))
    IN  IF after = ParseErr THEN 0 ELSE after

\* handle_button: the score read back from the text
decode_score(content) ==
    LET start == find(content, SCORE_PREFIX)
    IN  IF start # -1
        THEN LET after == parse_usize(trim(SubSeq(content,
                                                  start + Len(SCORE_PREFIX) + 1,
                                                  Len(content))))
             IN  IF after = ParseErr THEN 0 ELSE after
        ELSE 0

\* handle_button: let mut game = { ... }
decode_game(m) == [cells |-> decode_cells(m), score |-> decode_score(m.content)]

\* the match over data.custom_id with a wildcard arm that moves Left
direction_of_default_left(token) ==
    CASE token = UP    -> "Up"
      [] token = DOWN  -> "Down"
      [] token = LEFT  -> "Left"
      [] token = RIGHT -> "Right"
      [] OTHER         -> "Left"

\* the match over data.custom_id: the direction of a token, "-" for the rest
direction_of(token) ==
    CASE token = UP    -> "Up"
      [] token = DOWN  -> "Down"
      [] token = LEFT  -> "Left"
      [] token = RIGHT -> "Right"
      [] OTHER         -> "-"

\* the text of the answer to another user's press ("BACKTICK" stands for the
\* one character that opens and closes the command name)
NOT_YOUR_GAME ==
    <<"N", "o", "t", " ", "y", "o", "u", "r", " ", "g", "a", "m", "e", "!", " ",
      "S", "t", "a", "r", "t", " ", "o", "n", "e", " ", "b", "y", " ",
      "r", "u", "n", "n", "i", "n", "g", " ",
      "BACKTICK", "/", "2", "0", "4", "8", "BACKTICK">>

\* handle_button, lines 301-316: the response that replaces the game message
\* (flags and content: the flags and the text of the response data)
update_message(game) ==
    [ kind |-> "UpdateMessage", update |-> TRUE, game |-> game,
      flags |-> "-", content |-> button_content(game.cells, game.score),
      message |-> [ content |-> button_content(game.cells, game.score),
                    components |-> game_board_to_msg_components(game.cells) ] ]

\* handle_button with the author check left out
button_response_unchecked(m, game, token, own) ==
    IF direction_of(token) = "-"
    THEN [ kind |-> "DeferredUpdateMessage", update |-> FALSE,
           flags |-> "-", content |-> <<>>, game |-> game, message |-> m ]
    ELSE CHOOSE r \in {update_message([cells |-> moved, score |-> game.score]) :
                           moved \in {move(game.cells, direction_of(token))}} : TRUE

\* handle_button after the decoding: the author check, then the match over
\* data.custom_id  (game: the handler's local board when it returns; update:
\* the response replaces the game message)
button_response(m, game, token, own) ==
    IF ~own
    THEN [ kind |-> "ChannelMessageWithSource", update |-> FALSE,
           flags |-> "EPHEMERAL", content |-> NOT_YOUR_GAME,
           game |-> game, message |-> m ]
    ELSE IF direction_of(token) = "-"
    THEN [ kind |-> "DeferredUpdateMessage", update |-> FALSE,
           flags |-> "-", content |-> <<>>, game |-> game, message |-> m ]
    ELSE CHOOSE r \in {update_message([cells |-> moved, score |-> game.score]) :
                           moved \in {move(game.cells, direction_of(token))}} : TRUE

\* handle_button: the response to a button press on message m; the local
\* game is bound once, to the board decoded from m
handle_button(m, token, own) ==
    CHOOSE r \in {button_response(m, game, token, own) : game \in {decode_game(m)}} : TRUE

\* scores a message may carry
BotScores == {120}

\* boards a message may carry: SAMPLE_GAME_BOARD and the grids that repeat
\* two of these rows
BotRowKinds ==
    << Row(Tile(2), Tile(4), Tile(2), Tile(4)),
       Row(Tile(4), Tile(2), Tile(4), Tile(2)),
       Row(Tile(16), Tile(16), Vacant, Tile(2048)) >>

BotGrids ==
    {SAMPLE_GAME_BOARD}
        \cup {Grid(BotRowKinds[i], BotRowKinds[j], BotRowKinds[i], BotRowKinds[j]) :
                  i \in DOMAIN BotRowKinds, j \in DOMAIN BotRowKinds}

\* custom ids a button press may carry: the four controls, two grid cells,
\* a capitalised direction and the empty id
Tokens ==
    {LEFT, UP, DOWN, RIGHT, <<"3", "-", "1">>, <<"0", "-", "0">>, <<"U", "p">>, <<>>}

\* presses of another user that are tried: the controls, a grid cell and the
\* empty id
ForeignTokens == {LEFT, UP, DOWN, RIGHT, <<"3", "-", "1">>, <<>>}

\* the game message of a running game, as the bot rendered it
InitBot ==
    /\ cells \in BotGrids
    /\ score \in BotScores
    /\ msg = [ content |-> button_content(cells, score),
               components |-> game_board_to_msg_components(cells) ]
    /\ op = "init"
    /\ arg = NoArg
    /\ ret = NoRet
    /\ old = [cells |-> cells, score |-> score]
    /\ steps = 0

\* handle_command: /2048 starts a game; the in-memory board restarts with it
HandleCommand ==
    /\ steps < MaxSteps
    /\ steps' = steps + 1
    /\ cells' = new
    /\ score' = 0
    /\ msg' = [ content |-> command_content(0),
                components |-> game_board_to_msg_components(new) ]
    /\ op' = "command"
    /\ arg' = NoArg
    /\ ret' = [NoRet EXCEPT !.kind = "ChannelMessageWithSource",
                            !.cells = new, !.score = 0]
    /\ old' = Board

\* handle_button on the message in flight, for a press by the game's owner or
\* by another user.  An UpdateMessage response replaces the message, and the
\* in-memory board makes the same move; any other response leaves the
\* message as it is.
HandleButton ==
    \E token \in Tokens, own \in BOOLEAN :
        /\ own \/ token \in ForeignTokens
        /\ \E r \in {handle_button(msg, token, own)} :
               /\ IF r.update
                  THEN /\ steps < MaxSteps
                       /\ steps' = steps + 1
                       /\ msg' = r.message
                       /\ cells' = move(cells, direction_of(token))
                       /\ score' = score
                  ELSE UNCHANGED <<cells, score, steps, msg>>
               /\ op' = "button"
               /\ arg' = [NoArg EXCEPT !.token = token, !.own = own,
                                       !.content = msg.content]
               /\ ret' = [NoRet EXCEPT !.kind = r.kind, !.cells = r.game.cells,
                                       !.score = r.game.score,
                                       !.flags = r.flags, !.content = r.content]
               /\ old' = Board

NextBot == HandleCommand \/ HandleButton

SpecBot == InitBot /\ [][NextBot]_vars

----------------------------------------------------------------------------
(* Button presses on a message whose text is not the bot's own rendering:   *)
(* handle_button reads whatever text the message carries                    *)

\* a number one digit longer than usize::MAX
OVERLONG == USIZE_MAX \o <<"0">>

\* texts a pressed message may carry
DecodeContents ==
    { <<>>,
      <<"1", "2">>,
      <<"S", "c", "o", "r", "e", ":", " ", "1", "2">>,
      SCORE_PREFIX,
      SCORE_PREFIX \o <<"a", "b", "c">>,
      SCORE_PREFIX \o <<"-", "5">>,
      SCORE_PREFIX \o <<"1", " ", "2">>,
      SCORE_PREFIX \o <<"1", "2", ".", "5">>,
      SCORE_PREFIX \o OVERLONG,
      SCORE_PREFIX \o <<"1", "2">> \o SCORE_PREFIX \o <<"5">>,
      SCORE_PREFIX \o <<" ", "1", "2", " ", "\n">>,
      SCORE_PREFIX \o <<"+", "7">>,
      SCORE_PREFIX \o <<"0", "0", "7">>,
      GAME_OVER_PREFIX \o SCORE_PREFIX \o <<"1", "2", "0">> }

\* grids the buttons of such a message may show
DecodeGrids ==
    { SAMPLE_GAME_BOARD,
      [y \in Idx |-> BotRowKinds[3]],
      [y \in Idx |-> BotRowKinds[(y % 2) + 1]] }

\* a message in flight with any of the texts; the in-memory board is the
\* grid its buttons show, with no score yet
InitDecode ==
    /\ cells \in DecodeGrids
    /\ score = 0
    /\ \E content \in DecodeContents :
           msg = [ content |-> content,
                   components |-> game_board_to_msg_components(cells) ]
    /\ op = "init"
    /\ arg = NoArg
    /\ ret = NoRet
    /\ old = [cells |-> cells, score |-> score]
    /\ steps = 0

SpecDecode == InitDecode /\ [][NextBot]_vars


----------------------------------------------------------------------------
(* Vocabulary of the properties: lines, tiles, the reference line pass      *)

\* line i parallel to dir, listed from the dir-side end, as a sequence
LineOf(g, dir, i) ==
    CASE dir = "Left"  -> [j \in 1 .. GAME_BOARD_SIZE |-> g[i][j - 1]]
      [] dir = "Right" -> [j \in 1 .. GAME_BOARD_SIZE |-> g[i][GAME_BOARD_SIZE - j]]
      [] dir = "Up"    -> [j \in 1 .. GAME_BOARD_SIZE |-> g[j - 1][i]]
      [] dir = "Down"  -> [j \in 1 .. GAME_BOARD_SIZE |-> g[GAME_BOARD_SIZE - j][i]]

TilesOf(s) == SelectSeq(s, IsTile)

TileCount(g) == Cardinality({p \in Idx \X Idx : IsTile(g[p[2]][p[1]])})

MinOf(S) == CHOOSE m \in S : \A k \in S : m <= k

\* the nearest non-Vacant position of s strictly after x (0 when there is none)
NearestAfter(s, x) ==
    LET later == {j \in (x + 1) .. Len(s) : IsTile(s[j])}
    IN  IF later = {} THEN 0 ELSE MinOf(later)

\* reference merge scan of one line, positions x .. Len(s)
RECURSIVE RefMerge(_, _)
RefMerge(s, x) ==
    IF x > Len(s) THEN s
    ELSE LET j == NearestAfter(s, x)
         IN  RefMerge(IF IsTile(s[x]) /\ j # 0 /\ s[j] = s[x]
                      THEN [s EXCEPT ![x] = 2 * s[x], ![j] = Vacant]
                      ELSE s,
                      x + 1)

\* reference compaction of one line, positions x .. Len(s)
RECURSIVE RefCompact(_, _)
RefCompact(s, x) ==
    IF x > Len(s) THEN s
    ELSE LET j == NearestAfter(s, x)
         IN  RefCompact(IF s[x] = Vacant /\ j # 0
                        THEN [s EXCEPT ![x] = s[j], ![j] = Vacant]
                        ELSE s,
                        x + 1)

RefSlideLine(s) == RefCompact(RefMerge(s, 1), 1)

\* what a sequence of tiles can become when every tile merges at most once,
\* and only with an equal tile next to it in the sequence
RECURSIVE MergeOnceOutcomes(_)
MergeOnceOutcomes(t) ==
    IF t = <<>> THEN {<<>>}
    ELSE {<<t[1]>> \o r : r \in MergeOnceOutcomes(Tail(t))}
         \cup (IF Len(t) >= 2 /\ t[1] = t[2]
               THEN {<<2 * t[1]>> \o r : r \in MergeOnceOutcomes(Tail(Tail(t)))}
               ELSE {})

\* the tiles of a line after each tile, taken from the front, has merged with
\* the tile that follows it when the two are equal, and with no other
RECURSIVE MergeNearest(_)
MergeNearest(t) ==
    IF Len(t) < 2 THEN t
    ELSE IF t[1] = t[2] THEN <<2 * t[1]>> \o MergeNearest(Tail(Tail(t)))
    ELSE <<t[1]>> \o MergeNearest(Tail(t))

\* u lists the tiles of t in their order, each entry of u being one tile of t
\* or two consecutive tiles of t put together
RECURSIVE KeepsOrder(_, _)
KeepsOrder(t, u) ==
    IF u = <<>> THEN t = <<>>
    ELSE \/ t # <<>> /\ u[1] = t[1] /\ KeepsOrder(Tail(t), Tail(u))
         \/ Len(t) >= 2 /\ u[1] = t[1] + t[2] /\ KeepsOrder(Tail(Tail(t)), Tail(u))

\* the sum of the tile values of a sequence of cells
RECURSIVE SumOf(_)
SumOf(s) ==
    IF s = <<>> THEN 0
    ELSE (IF IsTile(s[1]) THEN s[1] ELSE 0) + SumOf(Tail(s))

RECURSIVE GridSum(_, _)
GridSum(g, y) ==
    IF y > GAME_BOARD_SIZE - 1 THEN 0
    ELSE SumOf([j \in 1 .. GAME_BOARD_SIZE |-> g[y][j - 1]]) + GridSum(g, y + 1)

\* how many merges a line of tiles undergoes: pairs of equal tiles that
\* follow each other, counted from the front, no tile counted twice
RECURSIVE LineMerges(_)
LineMerges(t) ==
    IF Len(t) < 2 THEN 0
    ELSE IF t[1] = t[2] THEN 1 + LineMerges(Tail(Tail(t)))
    ELSE LineMerges(Tail(t))

RECURSIVE SumMerges(_, _, _)
SumMerges(g, dir, i) ==
    IF i > GAME_BOARD_SIZE - 1 THEN 0
    ELSE LineMerges(TilesOf(LineOf(g, dir, i))) + SumMerges(g, dir, i + 1)

\* the values created by the merges of one line, summed
RECURSIVE LineGain(_)
LineGain(t) ==
    IF Len(t) < 2 THEN 0
    ELSE IF t[1] = t[2] THEN 2 * t[1] + LineGain(Tail(Tail(t)))
    ELSE LineGain(Tail(t))

RECURSIVE SumGain(_, _, _)
SumGain(g, dir, i) ==
    IF i > GAME_BOARD_SIZE - 1 THEN 0
    ELSE LineGain(TilesOf(LineOf(g, dir, i))) + SumGain(g, dir, i + 1)

\* no tile of g would move or merge under move(dir)
Settled(g, dir) ==
    \A i \in Idx :
        LET s == LineOf(g, dir, i)
            t == TilesOf(s)
        IN  /\ \A j \in 1 .. (GAME_BOARD_SIZE - 1) : s[j] = Vacant => s[j + 1] = Vacant
            /\ \A j \in 1 .. (Len(t) - 1) : t[j] # t[j + 1]

Full(g) == \A y \in Idx, x \in Idx : g[y][x] # Vacant

RECURSIVE IsPowerOfTwo(_)
IsPowerOfTwo(n) ==
    \/ n = 1
    \/ n > 1 /\ n % 2 = 0 /\ IsPowerOfTwo(n \div 2)

\* every tile of g is a power of two
AllPowersOfTwo(g) ==
    \A y \in Idx, x \in Idx : IsTile(g[y][x]) => IsPowerOfTwo(g[y][x])

NoAdjacentEqual(g) ==
    /\ \A y \in Idx, x \in 0 .. (GAME_BOARD_SIZE - 2) : g[y][x] # g[y][x + 1]
    /\ \A x \in Idx, y \in 0 .. (GAME_BOARD_SIZE - 2) : g[y][x] # g[y + 1][x]

\* the expected grids of the unit tests move_up, move_down, move_left, move_right
EXPECTED_UP ==
    Grid(Row(Tile(4), Tile(2), Tile(2), Tile(4)),
         Row(Tile(2), Tile(8), Tile(2), Vacant),
         Row(Vacant, Tile(4), Vacant, Vacant),
         Row(Vacant, Vacant, Vacant, Vacant))

EXPECTED_DOWN ==
    Grid(Row(Vacant, Vacant, Vacant, Vacant),
         Row(Vacant, Tile(2), Vacant, Vacant),
         Row(Tile(2), Tile(8), Tile(2), Vacant),
         Row(Tile(4), Tile(4), Tile(2), Tile(4)))

EXPECTED_LEFT ==
    Grid(Row(Tile(4), Tile(4), Vacant, Vacant),
         Row(Tile(2), Tile(8), Tile(1), Vacant),
         Row(Vacant, Vacant, Vacant, Vacant),
         Row(Tile(2), Tile(4), Tile(1), Tile(2)))

EXPECTED_RIGHT ==
    Grid(Row(Vacant, Vacant, Tile(4), Tile(4)),
         Row(Vacant, Tile(2), Tile(8), Tile(1)),
         Row(Vacant, Vacant, Vacant, Vacant),
         Row(Tile(2), Tile(4), Tile(1), Tile(2)))

Expected(dir) ==
    CASE dir = "Up"    -> EXPECTED_UP
      [] dir = "Down"  -> EXPECTED_DOWN
      [] dir = "Left"  -> EXPECTED_LEFT
      [] dir = "Right" -> EXPECTED_RIGHT

----------------------------------------------------------------------------
(* Properties of the engine, stated over the behaviours of Spec             *)

\* C1: move(D) transforms every line parallel to D by the reference two-pass
\* algorithm (merge scan from the D-side end, then compaction toward D), whatever
\* the other lines hold; on SAMPLE_GAME_BOARD it yields the expected grid of the
\* unit test of that direction.
C1_MoveIsReferencePerLine ==
    op = "move" =>
        /\ \A i \in Idx :
               LineOf(cells, arg.dir, i) = RefSlideLine(LineOf(old.cells, arg.dir, i))
        /\ old.cells = SAMPLE_GAME_BOARD => cells = Expected(arg.dir)

C1_Witness ==
    /\ op = "move"
    /\ arg.dir = "Down"
    /\ old.cells = SAMPLE_GAME_BOARD
    /\ cells = EXPECTED_DOWN

\* C2: in one move a tile merges at most once: along every line the tiles after
\* the move are the tiles before it, in order, where some pairs of equal
\* neighbouring tiles were replaced by their double; no tile takes part in two
\* merges and no merged tile merges again.
C2_MergeAtMostOnce ==
    op = "move" =>
        \A i \in Idx :
            TilesOf(LineOf(cells, arg.dir, i))
                \in MergeOnceOutcomes(TilesOf(LineOf(old.cells, arg.dir, i)))

C2_Witness ==
    /\ op = "move"
    /\ \E i \in Idx :
           /\ TilesOf(LineOf(old.cells, arg.dir, i)) = <<2, 2, 4>>
           /\ TilesOf(LineOf(cells, arg.dir, i)) = <<4, 4>>
    /\ \E i \in Idx :
           /\ TilesOf(LineOf(old.cells, arg.dir, i)) = <<2, 2, 2, 2>>
           /\ TilesOf(LineOf(cells, arg.dir, i)) = <<4, 4>>

\* C3: a move in a direction in which no tile would move or merge leaves the
\* grid identical cell for cell, the score unchanged and adds no tile.
C3_SettledMoveChangesNothing ==
    (op = "move" /\ Settled(old.cells, arg.dir)) =>
        /\ cells = old.cells
        /\ score = old.score
        /\ TileCount(cells) = TileCount(old.cells)

C3_Witness ==
    /\ op = "move"
    /\ Settled(old.cells, arg.dir)
    /\ TileCount(old.cells) > 0
    /\ \E d \in Directions : ~Settled(old.cells, d)

\* C4: after move(D) exactly one new tile is on the grid if and only if the
\* slide/merge pass changed the grid: a move that changed something ends with
\* one tile more than the slide/merge result, a move that changed nothing with
\* none added.
C4_SpawnIffChanged ==
    op = "move" =>
        LET slid == move(old.cells, arg.dir)
        IN  /\ slid # old.cells => TileCount(cells) = TileCount(slid) + 1
            /\ slid = old.cells => cells = old.cells

\* C5: the score never decreases; a move adds exactly the sum of the values of
\* the tiles its merges created; get, set and has_lost leave the score alone.
C5_ScoreAddsMergedValues ==
    /\ op = "move" => score = old.score + SumGain(old.cells, arg.dir, 0)
    /\ op \in {"get", "set", "has_lost"} => score = old.score

C9_NewHasTwoTiles ==
    /\ op = "new" =>
           /\ score = 0
           /\ TileCount(cells) = 2
           /\ \A y \in Idx, x \in Idx : cells[y][x] \in {Vacant, Tile(2), Tile(4)}
    /\ op = "empty" =>
           /\ score = 0
           /\ \A y \in Idx, x \in Idx : cells[y][x] = Vacant

C13_TilesArePowersOfTwo ==
    /\ op \in {"new", "empty"} => AllPowersOfTwo(cells)
    /\ (op = "move" /\ AllPowersOfTwo(old.cells)) => AllPowersOfTwo(cells)

C13_Witness ==
    /\ op = "move"
    /\ steps = 2
    /\ AllPowersOfTwo(old.cells)
    /\ TileCount(cells) < TileCount(old.cells)
    /\ \E y \in Idx, x \in Idx : cells[y][x] = Tile(8)
    /\ \A y \in Idx, x \in Idx : old.cells[y][x] # Tile(8)

\* C14: the random tile spawn does nothing on a grid without a Vacant cell;
\* on any other grid it turns exactly one cell that was Vacant into Tile(2) or
\* Tile(4) and leaves every other cell as it was; the score is unchanged.
\* (Stated over the behaviours of SpecDesign.)
C14_SpawnFillsOneVacantCell ==
    op = "spawn" =>
        /\ score = old.score
        /\ Full(old.cells) => cells = old.cells
        /\ ~Full(old.cells) =>
               \E y \in Idx, x \in Idx :
                   /\ old.cells[y][x] = Vacant
                   /\ cells[y][x] \in {Tile(2), Tile(4)}
                   /\ \A y2 \in Idx, x2 \in Idx :
                          <<y2, x2>> # <<y, x>> => cells[y2][x2] = old.cells[y2][x2]

C14_Witness ==
    /\ op = "spawn"
    /\ old.cells = set(STUCK_GRID, <<3, 1>>, Vacant)
    /\ cells[1][3] = Tile(4)
    /\ Full(cells)

\* C15: for every grid and every k in 0..3, rotating by k quarter-turns and
\* then by (4 - k) mod 4 quarter-turns gives back the original grid, cell for
\* cell.  (Stated over the behaviours of SpecDesign.)
C15_RotationComposition ==
    op = "rotate" =>
        \A y \in Idx, x \in Idx :
            rotate_times(cells, (4 - arg.times) % 4)[y][x] = old.cells[y][x]

C15_Witness ==
    /\ op = "rotate"
    /\ arg.times = 1
    /\ old.cells = SAMPLE_GAME_BOARD
    /\ cells # old.cells
    /\ cells[3][0] = Tile(2) /\ cells[3][1] = Tile(2) /\ cells[0][1] = Vacant
    /\ rotate_times(cells, 3) = SAMPLE_GAME_BOARD

\* C16: for every grid and direction D, move(D) gives the grid obtained by
\* rotating so that D becomes Left, running the Left slide-and-merge pass,
\* and rotating back by the complementary number of quarter-turns: the four
\* arms of move are one algorithm up to rotation.
C16_DirectionReduction ==
    op = "move" =>
        cells = rotate_times(MoveLeft(rotate_times(old.cells, turns(arg.dir)), 0),
                             (4 - turns(arg.dir)) % 4)

C16_Witness ==
    /\ op = "move"
    /\ arg.dir = "Up"
    /\ old.cells = SAMPLE_GAME_BOARD
    /\ cells = EXPECTED_UP
    /\ rotate_times(old.cells, 1) # old.cells
    /\ MoveLeft(old.cells, 0) # cells

\* C17: in move(D) a tile merges only with the nearest tile behind it on its
\* line, and only when the two are equal: a tile of another value between two
\* equal tiles keeps them apart (2,4,2 stays 2,4,2), Vacant cells between them
\* do not (2,Vacant,Vacant,2 becomes 4).
C17_NoMergeThroughOtherTile ==
    op = "move" =>
        \A i \in Idx :
            LET s == LineOf(old.cells, arg.dir, i)
                r == LineOf(cells, arg.dir, i)
            IN  /\ TilesOf(r) = MergeNearest(TilesOf(s))
                /\ TilesOf(s) = <<Tile(2), Tile(4), Tile(2)>> => TilesOf(r) = TilesOf(s)
                /\ TilesOf(s) = <<Tile(2), Tile(2)>> => TilesOf(r) = <<Tile(4)>>

C17_Witness ==
    /\ op = "move"
    /\ arg.dir = "Right"
    /\ old.cells = GAP_GRID
    /\ cells[0] = Row(Vacant, Vacant, Vacant, Tile(4))
    /\ cells[1] = Row(Vacant, Tile(2), Tile(4), Tile(2))
    /\ cells[3] = Row(Vacant, Tile(2), Tile(4), Tile(2))

\* C18: after move(D) every line is packed toward the D side: no Vacant cell
\* lies between the D-side edge and a tile of the line, and the tiles follow
\* each other in the order they had before the move, merged pairs standing
\* where the pair stood.
C18_PackedAndOrdered ==
    op = "move" =>
        \A i \in Idx :
            LET s == LineOf(old.cells, arg.dir, i)
                r == LineOf(cells, arg.dir, i)
            IN  /\ \A j \in 1 .. GAME_BOARD_SIZE, k \in 1 .. GAME_BOARD_SIZE :
                       (j < k /\ IsTile(r[k])) => IsTile(r[j])
                /\ KeepsOrder(TilesOf(s), TilesOf(r))

C18_Witness ==
    /\ op = "move"
    /\ arg.dir = "Left"
    /\ old.cells = GAP_GRID
    /\ cells[0] = Row(Tile(4), Vacant, Vacant, Vacant)
    /\ cells[1] = Row(Tile(2), Tile(4), Tile(2), Vacant)
    /\ cells[2] = Row(Tile(4), Vacant, Vacant, Vacant)

\* C21: move(D) preserves the sum of the tile values of the whole grid and of
\* every line parallel to D, never adds a tile, and lowers the number of tiles
\* by exactly the number of merges it performs.
C21_SumKeptCountDropsByMerges ==
    op = "move" =>
        /\ GridSum(cells, 0) = GridSum(old.cells, 0)
        /\ \A i \in Idx :
               SumOf(LineOf(cells, arg.dir, i)) = SumOf(LineOf(old.cells, arg.dir, i))
        /\ TileCount(cells) <= TileCount(old.cells)
        /\ TileCount(cells) = TileCount(old.cells) - SumMerges(old.cells, arg.dir, 0)

C21_Witness ==
    /\ op = "move"
    /\ arg.dir = "Up"
    /\ old.cells = SAMPLE_GAME_BOARD
    /\ GridSum(old.cells, 0) = 28
    /\ GridSum(cells, 0) = 28
    /\ TileCount(old.cells) = 11
    /\ TileCount(cells) = 8

\* C22: a lost game stays lost: when has_lost() holds for a board, a move in
\* any direction leaves the grid and the score as they are and adds no tile,
\* so has_lost() still holds after it, and after any further moves.
C22_LostStaysLost ==
    [][(op' = "move" /\ has_lost(cells)) =>
           /\ cells' = cells
           /\ score' = score
           /\ TileCount(cells') = TileCount(cells)
           /\ has_lost(cells')]_vars

C22_Witness ==
    /\ op = "move"
    /\ steps = 2
    /\ has_lost(old.cells)
    /\ old.cells = STUCK_GRID
    /\ cells = STUCK_GRID
    /\ has_lost(cells)

\* the text c holds the score prefix somewhere
HasScorePrefix(c) ==
    \E i \in 0 .. (Len(c) - Len(SCORE_PREFIX)) :
        SubSeq(c, i + 1, i + Len(SCORE_PREFIX)) = SCORE_PREFIX

\* what follows the first score prefix of c
AfterScorePrefix(c) ==
    LET i == MinOf({k \in 0 .. (Len(c) - Len(SCORE_PREFIX)) :
                       SubSeq(c, k + 1, k + Len(SCORE_PREFIX)) = SCORE_PREFIX})
    IN  SubSeq(c, i + Len(SCORE_PREFIX) + 1, Len(c))

IsDigit(ch) == \E d \in 1 .. 10 : DigitChars[d] = ch

\* s is whitespace around an unsigned integer in range: digits, or "+" and digits
WritesUnsigned(s) ==
    \E a \in 1 .. Len(s), b \in 1 .. Len(s) :
        /\ a <= b
        /\ \A i \in 1 .. Len(s) : (i < a \/ i > b) => s[i] \in Whitespace
        /\ s[a] \notin Whitespace /\ s[b] \notin Whitespace
        /\ LET first == IF s[a] = "+" THEN a + 1 ELSE a
           IN  /\ first <= b
               /\ \A i \in first .. b : IsDigit(s[i])
               /\ fits_usize(SubSeq(s, first, b))

----------------------------------------------------------------------------
(* Properties of the bot front end, stated over the behaviours of SpecBot   *)

\* the response just sent replaced the game message by a rendering of the
\* handler's board  [cells |-> ret.cells, score |-> ret.score]
Rendered ==
    \/ op = "command"
    \/ op = "button" /\ ret.kind = "UpdateMessage"

\* C7: decoding a rendered message gives back the board it was rendered from,
\* grid and score, in the plain and in the game-over form of the text; a
\* Vacant cell is a disabled button labelled ZWS, a Tile(v) a button whose
\* label is the decimal string of v.
C7_CodecRoundTrip ==
    Rendered =>
        /\ decode_game(msg) = [cells |-> ret.cells, score |-> ret.score]
        /\ decode_score(SCORE_PREFIX \o to_string(ret.score)) = ret.score
        /\ decode_score(GAME_OVER_PREFIX \o SCORE_PREFIX \o to_string(ret.score))
               = ret.score
        /\ \A y \in Idx, x \in Idx :
               LET b == msg.components[y + 1][x + 1]
               IN  IF ret.cells[y][x] = Vacant
                   THEN b.disabled /\ b.label = ZWS
                   ELSE /\ ~b.disabled
                        /\ b.label # ZWS
                        /\ \A i \in 1 .. Len(b.label) :
                               \E d \in 1 .. 10 : DigitChars[d] = b.label[i]
                        /\ parse_digits(b.label, 0) = ret.cells[y][x]

C7_Witness ==
    /\ op = "button"
    /\ ret.kind = "UpdateMessage"
    /\ find(msg.content, GAME_OVER_PREFIX) = 0
    /\ ret.score = 120
    /\ decode_game(msg) = [cells |-> ret.cells, score |-> 120]

\* C8: after any sequence of button presses, each on the message of the
\* previous response, the board read from the message in flight is the board
\* an in-memory game reaches by the same moves.
C8_MessageCarriesTheGame ==
    decode_game(msg) = Board

C8_Witness ==
    /\ steps >= 2
    /\ op = "button"
    /\ ret.kind = "UpdateMessage"
    /\ cells # old.cells
    /\ \E y \in Idx, x \in Idx : cells[y][x] = Tile(32)
    /\ decode_game(msg) = Board

GAME_OVER_MARKER == <<"G", "a", "m", "e", " ", "O", "v", "e", "r">>

\* C19: the response to a direction press reports the end of the game exactly
\* when the game has ended: its text carries the Game Over marker iff
\* has_lost() holds for the board after the move, and each of the four
\* direction buttons of the control row is disabled iff has_lost() holds for
\* that board, which is the board the grid buttons show.
C19_GameOverIffLost ==
    (op = "button" /\ ret.kind = "UpdateMessage") =>
        /\ (find(msg.content, GAME_OVER_MARKER) # -1) <=> has_lost(cells)
        /\ \A c \in 1 .. 4 :
               /\ msg.components[GAME_BOARD_SIZE + 1][c].custom_id
                      = <<LEFT, UP, DOWN, RIGHT>>[c]
               /\ msg.components[GAME_BOARD_SIZE + 1][c].disabled <=> has_lost(cells)
        /\ decode_cells(msg) = cells

C19_Witness ==
    /\ op = "button"
    /\ ret.kind = "UpdateMessage"
    /\ has_lost(cells)
    /\ find(msg.content, GAME_OVER_MARKER) = 2
    /\ msg.components[GAME_BOARD_SIZE + 1][4].disabled

\* C20: a press by a user other than the one who started the game never
\* changes the game, whatever the action token: no move is applied, and the
\* answer is a separate ephemeral message saying "Not your game", never an
\* update of the game message.
C20_ForeignPressChangesNothing ==
    (op = "button" /\ ~arg.own) =>
        /\ ret.kind = "ChannelMessageWithSource"
        /\ ret.flags = "EPHEMERAL"
        /\ SubSeq(ret.content, 1, 14) = SubSeq(NOT_YOUR_GAME, 1, 14)
        /\ ret.cells = old.cells
        /\ msg.content = arg.content
        /\ decode_cells(msg) = old.cells
        /\ decode_score(msg.content) = old.score
        /\ Board = old

C20_Witness ==
    /\ op = "button"
    /\ ~arg.own
    /\ arg.token = LEFT
    /\ ret.flags = "EPHEMERAL"
    /\ move(old.cells, "Left") # old.cells
    /\ cells = old.cells
    /\ decode_cells(msg) = old.cells

----------------------------------------------------------------------------
(* Properties of the score decode, stated over the behaviours of SpecDecode *)

\* C11: decoding the score never yields an error: when the text of the pressed
\* message lacks the score prefix, or what follows the prefix is no unsigned
\* integer, the decoded score is 0 and the press is handled as usual (a
\* direction pressed by the owner is answered with the updated game message,
\* its score text showing 0).
C11_ScoreDecodeDefaultsToZero ==
    op = "button" =>
        /\ ret.score >= 0
        /\ (~HasScorePrefix(arg.content)
               \/ ~WritesUnsigned(AfterScorePrefix(arg.content))) =>
               /\ ret.score = 0
               /\ (arg.own /\ arg.token \in {UP, DOWN, LEFT, RIGHT}) =>
                      /\ ret.kind = "UpdateMessage"
                      /\ msg.content \in
                             { SCORE_PREFIX \o <<"0">>,
                               GAME_OVER_PREFIX \o SCORE_PREFIX \o <<"0">> }

C11_Witness ==
    /\ op = "button"
    /\ arg.own
    /\ arg.token = LEFT
    /\ arg.content = SCORE_PREFIX \o <<"a", "b", "c">>
    /\ ret.kind = "UpdateMessage"
    /\ ret.score = 0
    /\ msg.content = SCORE_PREFIX \o <<"0">>

====
